---------------------------- MODULE Spec2Model ----------------------------
(***************************************************************************)
(* Scoring core of cd-metadl: scoring_program/scoring_helpers.py.          *)
(*                                                                         *)
(*   SpecScore  the four metric functions and compute_all_scores           *)
(*   SpecSel    get_score, the metric selector                             *)
(*   SpecStat   mean_confidence_interval over an accumulated collection    *)
(*   SpecViz    create_histogram / create_heatmap and the files they use   *)
(***************************************************************************)
EXTENDS Integers, Sequences, FiniteSets

VARIABLES
    y_true,      \* LabelArray handed to the metric functions
    y_pred,      \* PredictionMatrix: [ndim, rows]
    ret,         \* outcome of the last direct metric call
    cas,         \* the running compute_all_scores call
    scores_txt,  \* scores.txt: a sequence of lines, a line a sequence of tokens
    sel,         \* outcome of get_score
    data,        \* the ScoreCollection accumulated so far
    agg,         \* outcome of mean_confidence_interval
    groups,      \* the per-group collections handed to the visualizer
    fs,          \* the image files on disk: name -> bytes
    viz,         \* outcome of the last create_histogram / create_heatmap call
    ncalls       \* number of visualizer calls made

vars == <<y_true, y_pred, ret, cas, scores_txt, sel, data, agg, groups, fs, viz, ncalls>>

(***************************************************************************)
(* Bounds                                                                  *)
(***************************************************************************)
MaxN == 2          \* examples per episode
NumClasses == 2    \* class indices 0 .. NumClasses-1, columns of y_pred
Probs == {0, 1}    \* the entries a prediction row is drawn from

(***************************************************************************)
(* Exact fractions <<num, den>>, den > 0, in lowest terms.                 *)
(***************************************************************************)
RECURSIVE Gcd(_, _)
Gcd(a, b) == IF b = 0 THEN a ELSE Gcd(b, a % b)

Abs(x) == IF x < 0 THEN -x ELSE x

Frac(n, d) == LET g == Gcd(Abs(n), d) IN <<n \div g, d \div g>>

FracAdd(p, q) == Frac(p[1] * q[2] + q[1] * p[2], p[2] * q[2])

FracMul(p, q) == Frac(p[1] * q[1], p[2] * q[2])

FracLeq(p, q) == p[1] * q[2] <= q[1] * p[2]

Zero == <<0, 1>>

One == <<1, 1>>

RECURSIVE SeqSum(_)
SeqSum(s) == IF s = <<>> THEN Zero ELSE FracAdd(s[1], SeqSum(Tail(s)))

(***************************************************************************)
(* Outcomes of a call: a returned value or a raised exception.  `wrapper`  *)
(* is the function named in the "In <fn>, score cannot be computed"        *)
(* message, `cause` the repr of the underlying error it carries.           *)
(***************************************************************************)
Return(v) == [kind |-> "return", type |-> "float", value |-> v,
              wrapper |-> "", cause |-> ""]

Raise(t, w, c) == [kind |-> "raise", type |-> t, value |-> Zero,
                   wrapper |-> w, cause |-> c]

NoCall == [kind |-> "none", type |-> "", value |-> Zero, wrapper |-> "", cause |-> ""]

(***************************************************************************)
(* numpy.argmax(y_pred, axis=1)                                            *)
(***************************************************************************)
\* One row: scan left to right, a later entry wins only when strictly larger.
RECURSIVE argmax_scan(_, _, _)
argmax_scan(row, i, best) ==
    IF i > Len(row) THEN best
    ELSE argmax_scan(row, i + 1, IF row[i] > row[best] THEN i ELSE best)

\* A plausible variant: ties resolved towards the last maximal entry.
RECURSIVE argmax_scan_last(_, _, _)
argmax_scan_last(row, i, best) ==
    IF i > Len(row) THEN best
    ELSE argmax_scan_last(row, i + 1, IF row[i] >= row[best] THEN i ELSE best)

row_argmax_last(row) == argmax_scan_last(row, 2, 1) - 1

row_argmax(row) == argmax_scan(row, 2, 1) - 1

np_argmax(yp) ==
    IF yp.ndim # 2
    THEN Raise("AxisError", "", "axis 1 is out of bounds for array of dimension 1")
    ELSE IF \E i \in 1..Len(yp.rows) : Len(yp.rows[i]) = 0
    THEN Raise("ValueError", "", "attempt to get argmax of an empty sequence")
    ELSE [kind |-> "return", type |-> "ndarray",
          value |-> [i \in 1..Len(yp.rows) |-> row_argmax(yp.rows[i])],
          wrapper |-> "", cause |-> ""]

(***************************************************************************)
(* sklearn.metrics                                                         *)
(***************************************************************************)
check_consistent_length(yt, yp) == Len(yt) = Len(yp)

InconsistentLength == "ValueError('Found input variables with inconsistent numbers of samples')"

\* the positions where both arrays hold the given pair of conditions
Positions(yt) == 1..Len(yt)

accuracy_score(yt, yp) ==
    IF ~check_consistent_length(yt, yp) THEN Raise("ValueError", "", InconsistentLength)
    ELSE Return(Frac(Cardinality({i \in Positions(yt) : yt[i] = yp[i]}), Len(yt)))

Range(s) == {s[i] : i \in 1..Len(s)}

\* A plausible variant: only the labels of y_true are scored.
unique_labels_true_only(yt, yp) == Range(yt)

\* labels=None: the labels scored are those present in y_true or in y_pred
unique_labels(yt, yp) == Range(yt) \cup Range(yp)

RECURSIVE SortedSeq(_)
SortedSeq(S) ==
    IF S = {} THEN <<>>
    ELSE LET m == CHOOSE x \in S : \A y \in S : x <= y
         IN  <<m>> \o SortedSeq(S \ {m})

\* multilabel_confusion_matrix: per label, the hits and the two marginals
tp_sum(yt, yp, c) == Cardinality({i \in Positions(yt) : yt[i] = c /\ yp[i] = c})

pred_sum(yt, yp, c) == Cardinality({i \in Positions(yt) : yp[i] = c})

true_sum(yt, yp, c) == Cardinality({i \in Positions(yt) : yt[i] = c})

\* _prf_divide with zero_division=0
prf_divide(n, d) == IF d = 0 THEN Zero ELSE Frac(n, d)

class_precision(yt, yp, c) == prf_divide(tp_sum(yt, yp, c), pred_sum(yt, yp, c))

class_recall(yt, yp, c) == prf_divide(tp_sum(yt, yp, c), true_sum(yt, yp, c))

class_f1(yt, yp, c) ==
    prf_divide(2 * tp_sum(yt, yp, c), pred_sum(yt, yp, c) + true_sum(yt, yp, c))

per_class(metric, yt, yp, c) ==
    CASE metric = "f1" -> class_f1(yt, yp, c)
      [] metric = "precision" -> class_precision(yt, yp, c)
      [] metric = "recall" -> class_recall(yt, yp, c)

\* average="macro": the unweighted mean of the per-label scores
macro_average(metric, yt, yp) ==
    IF ~check_consistent_length(yt, yp) THEN Raise("ValueError", "", InconsistentLength)
    ELSE LET labels == SortedSeq(unique_labels(yt, yp))
             vals == [k \in 1..Len(labels) |-> per_class(metric, yt, yp, labels[k])]
         IN  Return(FracMul(SeqSum(vals), Frac(1, Len(labels))))

f1_score(yt, yp) == macro_average("f1", yt, yp)

precision_score(yt, yp) == macro_average("precision", yt, yp)

recall_score(yt, yp) == macro_average("recall", yt, yp)

(***************************************************************************)
(* The four metric functions.  The arg-max decoding stands before the try  *)
(* block: what it raises leaves the function as it is; what the sklearn    *)
(* call raises is re-raised as Exception("In <fn>, score cannot be         *)
(* computed. Detailed error: <repr>").                                     *)
(***************************************************************************)
TryScore(fn, decoded, r) ==
    IF decoded.kind = "raise" THEN decoded
    ELSE IF r.kind = "raise" THEN Raise("Exception", fn, r.cause)
    ELSE r

Decoded(d) == IF d.kind = "return" THEN d.value ELSE <<>>

accuracy(yt, yp) ==
    LET d == np_argmax(yp)
    IN  TryScore("accuracy", d, accuracy_score(yt, Decoded(d)))

macro_f1_score(yt, yp) ==
    LET d == np_argmax(yp)
    IN  TryScore("macro_f1_score", d, f1_score(yt, Decoded(d)))

macro_precision(yt, yp) ==
    LET d == np_argmax(yp)
    IN  TryScore("macro_precision", d, precision_score(yt, Decoded(d)))

macro_recall(yt, yp) ==
    LET d == np_argmax(yp)
    IN  TryScore("macro_recall", d, recall_score(yt, Decoded(d)))

(***************************************************************************)
(* compute_all_scores: the scoring dict in insertion order, one loop       *)
(* iteration per key.  An exception raised by a metric leaves the loop and *)
(* the function; nothing is returned then.                                 *)
(***************************************************************************)
ScoringKeys == <<"Accuracy", "Macro F1 Score", "Macro Precision", "Macro Recall">>

scoring(key, yt, yp) ==
    CASE key = "Accuracy" -> accuracy(yt, yp)
      [] key = "Macro F1 Score" -> macro_f1_score(yt, yp)
      [] key = "Macro Precision" -> macro_precision(yt, yp)
      [] key = "Macro Recall" -> macro_recall(yt, yp)

EmptyDict == [k \in {} |-> Zero]

DictSet(d, k, v) == [x \in DOMAIN d \cup {k} |-> IF x = k THEN v ELSE d[x]]

NoResult == [kind |-> "none", map |-> EmptyDict]

CasIdle == [pc |-> "idle", i |-> 0, scores |-> EmptyDict, evaluated |-> <<>>,
            exc |-> NoCall, result |-> NoResult]

NoRet == [fn |-> "", out |-> NoCall]

(***************************************************************************)
(* Inputs of one episode                                                   *)
(***************************************************************************)
SeqsOf(S, lo, hi) == UNION {[1..n -> S] : n \in lo..hi}

Labels == 0..(NumClasses - 1)

LabelArrays == SeqsOf(Labels, 1, MaxN)

\* a 2-D array of 1..MaxN rows with 0..NumClasses columns, or a 1-D array
PredictionMatrices ==
    UNION {{[ndim |-> 2, rows |-> m] : m \in SeqsOf([1..k -> Probs], 1, MaxN)}
              : k \in 0..NumClasses}
    \cup {[ndim |-> 1, rows |-> v] : v \in SeqsOf(Probs, 1, NumClasses)}

(***************************************************************************)
(* The parts of the state a specification does not use keep these values.  *)
(***************************************************************************)
ScoreIdle == y_true = <<>> /\ y_pred = [ndim |-> 2, rows |-> <<>>]
             /\ ret = NoRet /\ cas = CasIdle

NoSel == [kind |-> "none", type |-> "", label |-> <<>>, fn |-> <<>>]

SelIdle == scores_txt = <<>> /\ sel = NoSel

\* Python's None as a result component
None == [cls |-> "None", v |-> Zero]

NotAggregated == [kind |-> "none", mean |-> None, conf_int |-> None, confidence |-> Zero]

StatIdle == data = <<>> /\ agg = NotAggregated

NoViz == [kind |-> "none", fn |-> "", type |-> "", path |-> <<>>, wrote |-> <<>>,
          bytes |-> <<>>, b64 |-> <<>>, keys |-> <<>>, bins |-> <<>>, heatmap |-> <<>>]

VizIdle == groups = <<>> /\ fs = EmptyDict /\ viz = NoViz /\ ncalls = 0

(***************************************************************************)
(* SpecScore                                                               *)
(***************************************************************************)
InitScore ==
    /\ y_true \in LabelArrays
    /\ y_pred \in PredictionMatrices
    /\ ret = NoRet
    /\ cas = CasIdle
    /\ SelIdle /\ StatIdle /\ VizIdle

Fresh == ret = NoRet /\ cas.pc = "idle"

ScoreFrame == UNCHANGED <<y_true, y_pred, scores_txt, sel, data, agg, groups, fs, viz, ncalls>>

CallAccuracy ==
    /\ Fresh
    /\ ret' = [fn |-> "accuracy", out |-> accuracy(y_true, y_pred)]
    /\ UNCHANGED cas /\ ScoreFrame

CallMacroF1Score ==
    /\ Fresh
    /\ ret' = [fn |-> "macro_f1_score", out |-> macro_f1_score(y_true, y_pred)]
    /\ UNCHANGED cas /\ ScoreFrame

CallMacroPrecision ==
    /\ Fresh
    /\ ret' = [fn |-> "macro_precision", out |-> macro_precision(y_true, y_pred)]
    /\ UNCHANGED cas /\ ScoreFrame

CallMacroRecall ==
    /\ Fresh
    /\ ret' = [fn |-> "macro_recall", out |-> macro_recall(y_true, y_pred)]
    /\ UNCHANGED cas /\ ScoreFrame

\* scores = dict(); the loop starts
CasCall ==
    /\ Fresh
    /\ cas' = [CasIdle EXCEPT !.pc = "loop", !.i = 1]
    /\ UNCHANGED ret /\ ScoreFrame

\* A plausible variant: a failed metric is caught and reported as 0.
CasIterIsolating ==
    /\ cas.pc = "loop" /\ cas.i <= Len(ScoringKeys)
    /\ LET key == ScoringKeys[cas.i]
           r == scoring(key, y_true, y_pred)
       IN  cas' = [cas EXCEPT !.scores = DictSet(@, key, IF r.kind = "raise" THEN Zero ELSE r.value),
                              !.evaluated = Append(@, key), !.i = @ + 1]
    /\ UNCHANGED ret /\ ScoreFrame

\* scores[key] = scoring_function(y_true, y_pred)
CasIter ==
    /\ cas.pc = "loop" /\ cas.i <= Len(ScoringKeys)
    /\ LET key == ScoringKeys[cas.i]
           r == scoring(key, y_true, y_pred)
       IN  IF r.kind = "raise"
           THEN cas' = [cas EXCEPT !.pc = "raised", !.exc = r,
                                   !.evaluated = Append(@, key)]
           ELSE cas' = [cas EXCEPT !.scores = DictSet(@, key, r.value),
                                   !.evaluated = Append(@, key), !.i = @ + 1]
    /\ UNCHANGED ret /\ ScoreFrame

\* return scores
CasReturn ==
    /\ cas.pc = "loop" /\ cas.i > Len(ScoringKeys)
    /\ cas' = [cas EXCEPT !.pc = "returned", !.result = [kind |-> "dict", map |-> cas.scores]]
    /\ UNCHANGED ret /\ ScoreFrame

NextScore ==
    \/ CallAccuracy
    \/ CallMacroF1Score
    \/ CallMacroPrecision
    \/ CallMacroRecall
    \/ CasCall
    \/ CasIter
    \/ CasReturn

SpecScore == InitScore /\ [][NextScore]_vars

(***************************************************************************)
(* Properties of the metric functions and of compute_all_scores            *)
(***************************************************************************)
\* y_pred can be decoded row by row: two-dimensional, no empty row
Decodable(yp) == yp.ndim = 2 /\ \A i \in 1..Len(yp.rows) : Len(yp.rows[i]) > 0

Matching(yt, yp) == Decodable(yp) /\ Len(yp.rows) = Len(yt)

\* the lowest index (from 0) among the maximal entries of a row
FirstMaxIndex(row) ==
    (CHOOSE j \in 1..Len(row) :
        /\ \A k \in 1..Len(row) : row[k] <= row[j]
        /\ \A k \in 1..(j - 1) : row[k] < row[j]) - 1

PredictedLabels(yp) == [i \in 1..Len(yp.rows) |-> FirstMaxIndex(yp.rows[i])]

Hits(yt, yp) == {i \in 1..Len(yt) : FirstMaxIndex(yp.rows[i]) = yt[i]}

\* C1: for y_true of length n >= 1 and y_pred of n rows, accuracy returns
\* (number of rows whose first arg-max index equals y_true[i]) / n.
C1_AccuracyIsHitFraction ==
    (ret.fn = "accuracy" /\ Matching(y_true, y_pred)) =>
        /\ ret.out.kind = "return"
        /\ ret.out.value[1] * Len(y_true)
              = Cardinality(Hits(y_true, y_pred)) * ret.out.value[2]

\* accuracy was applied to a matrix with a tied row, and some but not all rows hit
C1_Witness ==
    /\ ret.fn = "accuracy" /\ Matching(y_true, y_pred)
    /\ \E i \in 1..Len(y_pred.rows) :
          Len(y_pred.rows[i]) >= 2 /\ y_pred.rows[i][1] = y_pred.rows[i][2]
    /\ ret.out.kind = "return"
    /\ ret.out.value \notin {Zero, One}

\* Per-class scores as the textbook defines them, from the decoded labels.
TP(yt, pl, c) == Cardinality({i \in 1..Len(yt) : pl[i] = c /\ yt[i] = c})

FP(yt, pl, c) == Cardinality({i \in 1..Len(yt) : pl[i] = c /\ yt[i] # c})

FN(yt, pl, c) == Cardinality({i \in 1..Len(yt) : pl[i] # c /\ yt[i] = c})

PrecisionOf(yt, pl, c) ==
    IF TP(yt, pl, c) + FP(yt, pl, c) = 0 THEN Zero
    ELSE Frac(TP(yt, pl, c), TP(yt, pl, c) + FP(yt, pl, c))

RecallOf(yt, pl, c) ==
    IF TP(yt, pl, c) + FN(yt, pl, c) = 0 THEN Zero
    ELSE Frac(TP(yt, pl, c), TP(yt, pl, c) + FN(yt, pl, c))

\* the harmonic mean of precision and recall, 0 when both are 0
F1Of(yt, pl, c) ==
    LET p == PrecisionOf(yt, pl, c)
        r == RecallOf(yt, pl, c)
        s == FracAdd(p, r)
    IN  IF s = Zero THEN Zero
        ELSE Frac(2 * p[1] * r[1] * s[2], p[2] * r[2] * s[1])

ScoreOf(fn, yt, pl, c) ==
    CASE fn = "macro_f1_score" -> F1Of(yt, pl, c)
      [] fn = "macro_precision" -> PrecisionOf(yt, pl, c)
      [] fn = "macro_recall" -> RecallOf(yt, pl, c)

RECURSIVE SumOver(_, _, _, _)
SumOver(S, fn, yt, pl) ==
    IF S = {} THEN Zero
    ELSE LET c == CHOOSE x \in S : TRUE
         IN  FracAdd(ScoreOf(fn, yt, pl, c), SumOver(S \ {c}, fn, yt, pl))

\* the equal-weight average of the per-class scores over the classes S
MacroOver(S, fn, yt, pl) == FracMul(SumOver(S, fn, yt, pl), Frac(1, Cardinality(S)))

MacroFns == {"macro_f1_score", "macro_precision", "macro_recall"}

\* C2 as stated: the macro metrics average over exactly the classes present
\* in y_true.
C2_AverageOverTrueClasses ==
    (ret.fn \in MacroFns /\ Matching(y_true, y_pred)) =>
        /\ ret.out.kind = "return"
        /\ ret.out.value = MacroOver(Range(y_true), ret.fn, y_true, PredictedLabels(y_pred))

\* C2 amended: the macro metrics average, with equal weight, over the classes
\* present in y_true or among the decoded predictions; a class whose
\* per-class denominator is zero contributes 0 and nothing is raised.
C2_AverageOverAllPresentClasses ==
    (ret.fn \in MacroFns /\ Matching(y_true, y_pred)) =>
        /\ ret.out.kind = "return"
        /\ ret.out.value = MacroOver(Range(y_true) \cup Range(PredictedLabels(y_pred)),
                                     ret.fn, y_true, PredictedLabels(y_pred))

\* macro recall was computed where a class is predicted but never true (its
\* recall denominator is zero) and another class is recalled
C2_Witness ==
    /\ ret.fn = "macro_recall" /\ Matching(y_true, y_pred)
    /\ \E c \in Range(PredictedLabels(y_pred)) : c \notin Range(y_true)
    /\ ret.out.kind = "return"
    /\ ret.out.value # Zero

MetricOf(key, yt, yp) ==
    CASE key = "Accuracy" -> accuracy(yt, yp)
      [] key = "Macro F1 Score" -> macro_f1_score(yt, yp)
      [] key = "Macro Precision" -> macro_precision(yt, yp)
      [] key = "Macro Recall" -> macro_recall(yt, yp)

MetricKeys == {"Accuracy", "Macro F1 Score", "Macro Precision", "Macro Recall"}

Failing(yt, yp) == {k \in 1..Len(ScoringKeys) : MetricOf(ScoringKeys[k], yt, yp).kind = "raise"}

\* C3: a returned mapping has exactly the four keys, each value the result of
\* its metric and within [0, 1]; when a metric fails, the first failure is
\* what the caller gets, no later metric is evaluated and no mapping returns.
C3_AllScoresOrFirstFailure ==
    /\ cas.result.kind = "dict" =>
          /\ cas.pc = "returned"
          /\ DOMAIN cas.result.map = MetricKeys
          /\ \A key \in MetricKeys :
                /\ MetricOf(key, y_true, y_pred) = Return(cas.result.map[key])
                /\ FracLeq(Zero, cas.result.map[key])
                /\ FracLeq(cas.result.map[key], One)
    /\ cas.pc = "returned" => cas.result.kind = "dict" /\ Failing(y_true, y_pred) = {}
    /\ cas.pc = "raised" =>
          LET first == CHOOSE k \in Failing(y_true, y_pred) :
                           \A j \in Failing(y_true, y_pred) : k <= j
          IN  /\ Failing(y_true, y_pred) # {}
              /\ cas.exc = MetricOf(ScoringKeys[first], y_true, y_pred)
              /\ cas.evaluated = SubSeq(ScoringKeys, 1, first)
              /\ cas.result.kind = "none"
    /\ cas.pc \in {"idle", "loop"} => cas.result.kind = "none"
    /\ \E n \in 0..Len(ScoringKeys) : cas.evaluated = SubSeq(ScoringKeys, 1, n)
    /\ \A k \in Failing(y_true, y_pred) : Len(cas.evaluated) <= k

\* compute_all_scores returned a mapping with a score strictly inside (0, 1)
C3_Witness ==
    /\ cas.pc = "returned"
    /\ cas.result.kind = "dict"
    /\ \E key \in DOMAIN cas.result.map : cas.result.map[key] \notin {Zero, One}
    /\ cas.result.map["Macro Precision"] # cas.result.map["Macro Recall"]

\* C7 as stated: on a length mismatch or an undecodable y_pred every metric
\* function raises the wrapped error naming the function and its cause.
C7_FailuresAreWrapped ==
    (ret.fn # "" /\ ~Matching(y_true, y_pred)) =>
        /\ ret.out.kind = "raise"
        /\ ret.out.type = "Exception"
        /\ ret.out.wrapper = ret.fn
        /\ ret.out.cause # ""

(***************************************************************************)
(* get_score.  A name is a sequence of tokens: words, "_", and the         *)
(* whitespace tokens " " and "\n".                                         *)
(***************************************************************************)
Whitespace == {" ", "\n"}

\* str.strip()
RECURSIVE lstrip(_)
lstrip(t) == IF t # <<>> /\ Head(t) \in Whitespace THEN lstrip(Tail(t)) ELSE t

RECURSIVE rstrip(_)
rstrip(t) ==
    IF t # <<>> /\ t[Len(t)] \in Whitespace THEN rstrip(SubSeq(t, 1, Len(t) - 1)) ELSE t

strip(t) == rstrip(lstrip(t))

\* f.readline(): the first line with its line end, "" at end of file
readline(f) == IF f = <<>> THEN <<>> ELSE Head(f)

\* The metric functions of the module.
Metrics ==
    { <<"accuracy">>, <<"macro", "_", "f1", "_", "score">>,
      <<"macro", "_", "precision">>, <<"macro", "_", "recall">> }

\* Other attributes of the module: its imports and its other functions.
OtherAttrs ==
    { <<"np">>, <<"os">>, <<"ls">>, <<"modules">>,
      <<"f1", "_", "score">>, <<"accuracy", "_", "score">>,
      <<"mkdir">>, <<"get", "_", "score">>, <<"compute", "_", "all", "_", "scores">>,
      <<"create", "_", "heatmap">> }

\* dir(modules[__name__])
ModuleNamespace == Metrics \cup OtherAttrs

\* str.replace("_", " ")
replace_underscores(t) == [i \in 1..Len(t) |-> IF t[i] = "_" THEN " " ELSE t[i]]

\* str.title() on one token: the first letter upper case, the rest lower case
Capitalized ==
    [accuracy |-> "Accuracy", macro |-> "Macro", f1 |-> "F1", score |-> "Score",
     precision |-> "Precision", recall |-> "Recall", np |-> "Np", os |-> "Os",
     ls |-> "Ls", modules |-> "Modules", mkdir |-> "Mkdir", get |-> "Get",
     compute |-> "Compute", all |-> "All", scores |-> "Scores",
     create |-> "Create", heatmap |-> "Heatmap", auc |-> "Auc", Accuracy |-> "Accuracy"]

title(t) == [i \in 1..Len(t) |-> IF t[i] \in DOMAIN Capitalized THEN Capitalized[t[i]] ELSE t[i]]

get_score(f) ==
    LET score_name == strip(readline(f))
    IN  IF score_name \notin ModuleNamespace
        THEN [kind |-> "raise", type |-> "NotImplementedError", label |-> <<>>, fn |-> <<>>]
        ELSE [kind |-> "return", type |-> "tuple",
              label |-> title(replace_underscores(score_name)), fn |-> score_name]

\* Names a scores.txt may hold that the module does not define.
UnknownNames ==
    { <<>>, <<"auc">>, <<"Accuracy">>, <<"macro", "_", "f1">>,
      <<"macro", " ", "f1", " ", "score">>, <<"accuracy", "_">> }

ConfiguredNames == ModuleNamespace \cup UnknownNames

\* scores.txt: empty, or a first line and possibly a second one
ScoreFiles ==
    {<<>>}
    \cup {<<lead \o name \o trail>> : lead \in {<<>>, <<" ">>},
                                      name \in ConfiguredNames,
                                      trail \in {<<>>, <<"\n">>, <<" ", "\n">>}}
    \cup {<<name \o <<"\n">>, <<"accuracy", "\n">>>> : name \in ConfiguredNames}

InitSel ==
    /\ scores_txt \in ScoreFiles
    /\ sel = NoSel
    /\ ScoreIdle /\ StatIdle /\ VizIdle

GetScore ==
    /\ sel = NoSel
    /\ sel' = get_score(scores_txt)
    /\ UNCHANGED <<y_true, y_pred, ret, cas, scores_txt, data, agg, groups, fs, viz, ncalls>>

NextSel == GetScore

SpecSel == InitSel /\ [][NextSel]_vars

\* the name configured in scores.txt
ConfiguredName == strip(readline(scores_txt))

\* C6 as stated: a name that is not one of the four metrics raises
\* NotImplementedError; a pair is returned only for one of the four metrics,
\* and its callable is the metric of that name.
C6_OnlyMetricsResolve ==
    sel.kind # "none" =>
        /\ ConfiguredName \notin Metrics =>
              sel.kind = "raise" /\ sel.type = "NotImplementedError"
        /\ sel.kind = "return" => sel.fn \in Metrics /\ sel.fn = ConfiguredName

(***************************************************************************)
(* Binary floating point.  A finite float is an exact fraction m * 2^e     *)
(* with a mantissa m of at most Precision bits; every operation returns    *)
(* the float nearest to its exact result, ties to the even mantissa.       *)
(* (A double has 53 mantissa bits; the rounding rule is the same.)         *)
(***************************************************************************)
Precision == 3

RECURSIVE Pow2(_)
Pow2(k) == IF k = 0 THEN 1 ELSE 2 * Pow2(k - 1)

\* m * 2^e as a fraction
Scaled(m, e) == IF e >= 0 THEN Frac(m * Pow2(e), 1) ELSE Frac(m, Pow2(-e))

\* a/b > 0 brought to <<a', b', e>> with a/b = (a'/b') * 2^e and
\* 2^(Precision-1) <= a'/b' < 2^Precision
RECURSIVE normalize(_, _, _)
normalize(a, b, e) ==
    IF a < Pow2(Precision - 1) * b THEN normalize(2 * a, b, e - 1)
    ELSE IF a >= Pow2(Precision) * b THEN normalize(a, 2 * b, e + 1)
    ELSE <<a, b, e>>

\* the float nearest to a/b (b > 0), round-half-to-even
fl(a, b) ==
    IF a = 0 THEN Zero
    ELSE LET n == normalize(Abs(a), b, 0)
             m == n[1] \div n[2]
             r == n[1] % n[2]
             up == 2 * r > n[2] \/ (2 * r = n[2] /\ m % 2 = 1)
             v == Scaled(IF up THEN m + 1 ELSE m, n[3])
         IN  IF a < 0 THEN <<-v[1], v[2]>> ELSE v

fadd(x, y) == fl(x[1] * y[2] + y[1] * x[2], x[2] * y[2])

fsub(x, y) == fl(x[1] * y[2] - y[1] * x[2], x[2] * y[2])

fmul(x, y) == fl(x[1] * y[1], x[2] * y[2])

\* y # 0
fdiv(x, y) == IF y[1] < 0 THEN fl(-(x[1] * y[2]), x[2] * (-y[1]))
              ELSE fl(x[1] * y[2], x[2] * y[1])

\* a/b > 0 brought to <<a', b', e>> with a/b = (a'/b') * 4^e and
\* 4^(Precision-1) <= a'/b' < 4^Precision
RECURSIVE normalize4(_, _, _)
normalize4(a, b, e) ==
    IF a < Pow2(2 * (Precision - 1)) * b THEN normalize4(4 * a, b, e - 1)
    ELSE IF a >= Pow2(2 * Precision) * b THEN normalize4(a, 4 * b, e + 1)
    ELSE <<a, b, e>>

\* the float nearest to sqrt(x), x >= 0
fsqrt(x) ==
    IF x[1] = 0 THEN Zero
    ELSE LET n == normalize4(x[1], x[2], 0)
             m == CHOOSE k \in Pow2(Precision - 1)..(Pow2(Precision) - 1) :
                      k * k * n[2] <= n[1] /\ n[1] < (k + 1) * (k + 1) * n[2]
             mid == (2 * m + 1) * (2 * m + 1) * n[2]
             up == 4 * n[1] > mid \/ (4 * n[1] = mid /\ m % 2 = 1)
         IN  Scaled(IF up THEN m + 1 ELSE m, n[3])

FromInt(n) == fl(n, 1)

(***************************************************************************)
(* mean_confidence_interval.  A result component is None, a finite float,  *)
(* an infinity (v holds its sign) or NaN.                                  *)
(***************************************************************************)
Fin(v) == [cls |-> "float", v |-> v]

Inf(sign) == [cls |-> "inf", v |-> <<sign, 1>>]

NaN == [cls |-> "nan", v |-> Zero]

\* add.reduce over fewer than 8 elements: one accumulator, left to right
RECURSIVE np_sum_from(_, _)
np_sum_from(acc, s) == IF s = <<>> THEN acc ELSE np_sum_from(fadd(acc, Head(s)), Tail(s))

np_sum(s) == np_sum_from(Zero, s)

np_mean(s) == fdiv(np_sum(s), FromInt(Len(s)))

\* numpy _var with ddof=1: mean, deviations, squares, their sum over n - 1
np_var(s) ==
    LET arrmean == fdiv(np_sum(s), FromInt(Len(s)))
        x == [i \in 1..Len(s) |-> fsub(s[i], arrmean)]
        xx == [i \in 1..Len(s) |-> fmul(x[i], x[i])]
    IN  fdiv(np_sum(xx), FromInt(Len(s) - 1))

\* scipy.stats.sem: np.std(a, ddof=1) / np.sqrt(n)
ss_sem(s) == fdiv(fsqrt(np_var(s)), fsqrt(FromInt(Len(s))))

\* Student t quantiles (times 10000) at the upper tail probabilities 3/4 and
\* 7/8, by degrees of freedom.
TQuantile ==
    [q \in {<<3, 4>>, <<7, 8>>} |->
        IF q = <<3, 4>> THEN <<10000, 8165, 7649, 7407, 7267>>
                        ELSE <<24142, 16036, 14226, 13444, 13009>>]

\* scipy.stats.t.ppf(q, df)
ss_t_ppf(q, df) ==
    IF q[1] < 0 \/ q[1] > q[2] THEN NaN
    ELSE IF q = Zero THEN Inf(-1)
    ELSE IF q = One THEN Inf(1)
    ELSE IF q = <<1, 2>> THEN Fin(Zero)
    ELSE IF 2 * q[1] > q[2] THEN Fin(fl(TQuantile[q][df], 10000))
    ELSE LET u == fl(TQuantile[<<q[2] - q[1], q[2]>>][df], 10000)
         IN  Fin(<<-u[1], u[2]>>)

\* se * t for a finite se >= 0
times(se, t) ==
    CASE t.cls = "float" -> Fin(fmul(se, t.v))
      [] t.cls = "inf" -> IF se = Zero THEN NaN ELSE t
      [] t.cls = "nan" -> NaN

\* A plausible variant: the lower tail, (1 - confidence) / 2.
lower_tail_probability(confidence) == fdiv(fsub(One, confidence), <<2, 1>>)

\* (1 + confidence) / 2.
tail_probability(confidence) == fdiv(fadd(One, confidence), <<2, 1>>)

mean_confidence_interval(d, confidence) ==
    LET n == Len(d)
    IN  IF n = 0 THEN [kind |-> "return", mean |-> None, conf_int |-> None,
                       confidence |-> confidence]
        ELSE IF n > 1
        THEN [kind |-> "return", mean |-> Fin(np_mean(d)),
              conf_int |-> times(ss_sem(d), ss_t_ppf(tail_probability(confidence), n - 1)),
              confidence |-> confidence]
        ELSE [kind |-> "return", mean |-> Fin(d[1]), conf_int |-> Fin(Zero),
              confidence |-> confidence]

(***************************************************************************)
(* SpecStat: per-episode scores are appended to the collection, then the   *)
(* collection is reduced.                                                  *)
(***************************************************************************)
MaxLen == 3

\* per-episode scores, each a float in [0, 1]
Samples == {Zero, <<1, 8>>, <<1, 4>>, <<7, 8>>, One}

Confidences == {<<-1, 2>>, Zero, <<1, 2>>, <<3, 4>>, One}

InitStat ==
    /\ data = <<>>
    /\ agg = NotAggregated
    /\ ScoreIdle /\ SelIdle /\ VizIdle

StatFrame == UNCHANGED <<y_true, y_pred, ret, cas, scores_txt, sel, groups, fs, viz, ncalls>>

AppendScore ==
    /\ agg.kind = "none"
    /\ Len(data) < MaxLen
    /\ \E x \in Samples : data' = Append(data, x)
    /\ UNCHANGED agg /\ StatFrame

Aggregate ==
    /\ agg.kind = "none"
    /\ \E c \in Confidences : agg' = mean_confidence_interval(data, c)
    /\ UNCHANGED data /\ StatFrame

NextStat == AppendScore \/ Aggregate

SpecStat == InitStat /\ [][NextStat]_vars

\* C4: (None, None) for an empty collection, (the value, 0.0) for a single
\* one, whatever the confidence; for more than one element and a confidence
\* in [0, 1) the half-width is a number and not negative.
C4_HalfWidth ==
    agg.kind = "return" =>
        /\ Len(data) = 0 => agg.mean = None /\ agg.conf_int = None
        /\ Len(data) = 1 => agg.mean = Fin(data[1]) /\ agg.conf_int = Fin(Zero)
        /\ (Len(data) > 1 /\ FracLeq(Zero, agg.confidence) /\ agg.confidence # One
              /\ FracLeq(agg.confidence, One)) =>
              agg.conf_int.cls = "float" /\ agg.conf_int.v[1] >= 0

\* a collection of several differing scores was reduced at a confidence
\* within (0, 1) to a positive half-width
C4_Witness ==
    /\ agg.kind = "return"
    /\ Len(data) > 1
    /\ FracLeq(Zero, agg.confidence) /\ agg.confidence \notin {Zero, One}
    /\ FracLeq(agg.confidence, One)
    /\ agg.conf_int.cls = "float" /\ agg.conf_int.v[1] > 0

Permutations(d) ==
    {[i \in 1..Len(d) |-> d[f[i]]] :
        f \in {g \in [1..Len(d) -> 1..Len(d)] : \A i, j \in 1..Len(d) : g[i] = g[j] => i = j}}

\* C5 as stated: every permutation of the collection reduces to the same
\* (mean, half-width) pair.
C5_OrderIndependent ==
    agg.kind = "return" =>
        \A p \in Permutations(data) : mean_confidence_interval(p, agg.confidence) = agg

(***************************************************************************)
(* Image files.  A file name is a sequence of tokens, the last of which    *)
(* may be an extension; a file is a sequence of bytes.                     *)
(***************************************************************************)
Extensions == {".png"}

\* os.path.splitext(path)[1]
splitext(path) == IF path # <<>> /\ path[Len(path)] \in Extensions THEN path[Len(path)] ELSE ""

\* where fig.savefig(path) writes: the format is taken from the extension;
\* without one the default format's extension is appended
savefig_name(path) == IF splitext(path) = "" THEN Append(path, ".png") ELSE path

\* the name the function opens to read the image back: f"{path}.png"
readback_name(path) == Append(path, ".png")

\* the first bytes of a PNG file
Signature == <<137, 80, 78, 71>>

\* the bytes savefig writes for a figure: the format's signature, then the
\* raster, which is a function of what the figure shows
savefig_bytes(raster) == Signature \o raster

\* base64.b64encode(...).decode('ascii'): three bytes become four symbols
\* 0..63; a last group of one or two bytes is padded with the symbol 64 ('=')
RECURSIVE b64encode(_)
b64encode(b) ==
    IF b = <<>> THEN <<>>
    ELSE IF Len(b) = 1
    THEN <<b[1] \div 4, (b[1] % 4) * 16, 64, 64>>
    ELSE IF Len(b) = 2
    THEN <<b[1] \div 4, (b[1] % 4) * 16 + b[2] \div 16, (b[2] % 16) * 4, 64>>
    ELSE <<b[1] \div 4, (b[1] % 4) * 16 + b[2] \div 16,
           (b[2] % 16) * 4 + b[3] \div 64, b[3] % 64>>
         \o b64encode(SubSeq(b, 4, Len(b)))

(***************************************************************************)
(* create_histogram and create_heatmap                                     *)
(***************************************************************************)
\* Scores are held in hundredths (0 .. 100), bin edges in thousandths.
\* np.min / np.max of a non-empty collection
np_min(c) == CHOOSE x \in Range(c) : \A y \in Range(c) : x <= y

np_max(c) == CHOOSE x \in Range(c) : \A y \in Range(c) : y <= x

PosInf == [cls |-> "inf", v |-> 1]

NegInf == [cls |-> "inf", v |-> -1]

Num(x) == [cls |-> "float", v |-> x]

\* min / max of floats where either may be an infinity
py_min(a, b) ==
    IF a.cls = "inf" THEN (IF a.v > 0 THEN b ELSE a)
    ELSE IF b.cls = "inf" THEN (IF b.v > 0 THEN a ELSE b)
    ELSE IF a.v < b.v THEN a ELSE b

py_max(a, b) ==
    IF a.cls = "inf" THEN (IF a.v > 0 THEN a ELSE b)
    ELSE IF b.cls = "inf" THEN (IF b.v > 0 THEN b ELSE a)
    ELSE IF b.v < a.v THEN a ELSE b

\* the loop over keys that finds the limits; np.min of an empty collection
\* raises ValueError
RECURSIVE heatmap_limits(_, _, _, _)
heatmap_limits(d, keys, minimum, maximum) ==
    IF keys = <<>> THEN [kind |-> "ok", minimum |-> minimum, maximum |-> maximum]
    ELSE IF d[Head(keys)] = <<>>
    THEN [kind |-> "raise", minimum |-> minimum, maximum |-> maximum]
    ELSE heatmap_limits(d, Tail(keys),
                        py_min(Num(np_min(d[Head(keys)])), minimum),
                        py_max(Num(np_max(d[Head(keys)])), maximum))

NumEdges == 11

\* a score in the unit of the edges
InEdgeUnits(x) == x * (NumEdges - 1)

\* np.linspace(start, stop, 11) for finite limits: start + i * step with
\* step = (stop - start) / 10, the last edge set to stop
RECURSIVE linspace_from(_, _, _)
linspace_from(i, start, stop) ==
    IF i = NumEdges THEN <<InEdgeUnits(stop)>>
    ELSE <<InEdgeUnits(start) + (i - 1) * (stop - start)>> \o linspace_from(i + 1, start, stop)

np_linspace(start, stop) == linspace_from(1, start, stop)

\* searchsorted(sorted(c), edge, 'left') and (..., 'right')
searchsorted_left(c, edge) == Cardinality({i \in 1..Len(c) : InEdgeUnits(c[i]) < edge})

searchsorted_right(c, edge) == Cardinality({i \in 1..Len(c) : InEdgeUnits(c[i]) <= edge})

\* A plausible variant: the last bin is half-open like the others.
RECURSIVE histogram_half_open_from(_, _, _)
histogram_half_open_from(j, c, bins) ==
    IF j = NumEdges THEN <<>>
    ELSE <<searchsorted_left(c, bins[j + 1]) - searchsorted_left(c, bins[j])>>
         \o histogram_half_open_from(j + 1, c, bins)

\* the counts of bins j, j+1, ...: the differences of the cumulative counts,
\* taken 'left' at every edge but the last, 'right' there
RECURSIVE histogram_from(_, _, _)
histogram_from(j, c, bins) ==
    IF j = NumEdges THEN <<>>
    ELSE <<(IF j + 1 = NumEdges THEN searchsorted_right(c, bins[j + 1])
                                ELSE searchsorted_left(c, bins[j + 1]))
           - searchsorted_left(c, bins[j])>>
         \o histogram_from(j + 1, c, bins)

\* np.histogram(c, bins=bins)[0] for monotonic edges
np_histogram(c, bins) == histogram_from(1, c, bins)

\* [np.histogram(data[key][score_name], bins=bins)[0] for key in keys]
RECURSIVE heatmap_rows(_, _, _)
heatmap_rows(d, keys, bins) ==
    IF keys = <<>> THEN <<>>
    ELSE <<np_histogram(d[Head(keys)], bins)>> \o heatmap_rows(d, Tail(keys), bins)

\* the raster of a figure: one byte for the kind of plot, then its cells
ToByte(x) == (x * 255) \div 100

RECURSIVE histogram_cells(_)
histogram_cells(c) == IF c = <<>> THEN <<>> ELSE <<ToByte(Head(c))>> \o histogram_cells(Tail(c))

histogram_raster(c) == <<1>> \o histogram_cells(c)

RECURSIVE heatmap_cells(_)
heatmap_cells(grid) == IF grid = <<>> THEN <<>> ELSE Head(grid) \o heatmap_cells(Tail(grid))

heatmap_raster(grid) == <<2>> \o heatmap_cells(grid)

\* the element of a one-element set; {f(x) : x \in {e}} evaluates e once
The(S) == CHOOSE x \in S : TRUE

VizOutcome(fn, path) ==
    [kind |-> "raise", fn |-> fn, type |-> "", path |-> path, wrote |-> <<>>,
     bytes |-> <<>>, b64 |-> <<>>, keys |-> <<>>, bins |-> <<>>, heatmap |-> <<>>]

\* "Save and return plot": savefig, then open(f"{path}.png") and encode.
\* Returns the outcome and the files afterwards.
save_and_return(o, files, raster) ==
    LET name == savefig_name(o.path)
        bytes == savefig_bytes(raster)
        after == DictSet(files, name, bytes)
        w == [o EXCEPT !.wrote = name, !.bytes = bytes]
    IN  IF readback_name(o.path) \notin DOMAIN after
        THEN [viz |-> [w EXCEPT !.type = "FileNotFoundError"], fs |-> after]
        ELSE [viz |-> [w EXCEPT !.kind = "return",
                                !.b64 = b64encode(after[readback_name(o.path)])],
              fs |-> after]

create_histogram(c, path, files) ==
    LET o == VizOutcome("create_histogram", path)
    IN  IF c = <<>>
        THEN [viz |-> [o EXCEPT !.type = "ValueError"], fs |-> files]
        ELSE save_and_return(o, files, histogram_raster(c))

\* "Heatmap data" and "Plot", then "Save and return plot"
heatmap_plot(o, d, bins, files) ==
    The({save_and_return([o EXCEPT !.bins = bins, !.heatmap = grid],
                         files, heatmap_raster(grid))
            : grid \in {heatmap_rows(d, o.keys, bins)}})

\* "Limits for the heatmap" done: sns.heatmap of an empty list raises
\* ValueError, as np.min of an empty collection did in the loop
heatmap_within(o, d, lim, files) ==
    IF lim.kind = "raise" \/ o.keys = <<>>
    THEN [viz |-> [o EXCEPT !.type = "ValueError"], fs |-> files]
    ELSE The({heatmap_plot(o, d, bins, files)
                 : bins \in {np_linspace(lim.minimum.v, lim.maximum.v)}})

create_heatmap(d, keys, path, files) ==
    The({heatmap_within([VizOutcome("create_heatmap", path) EXCEPT !.keys = keys],
                        d, lim, files)
            : lim \in {heatmap_limits(d, keys, PosInf, NegInf)}})

(***************************************************************************)
(* SpecViz: the report generator holds the per-group collections and calls *)
(* the two renderers, any number of times, with paths of its choice.       *)
(***************************************************************************)
MaxScores == 2

MaxCalls == 2

GroupKeys == {"a", "b"}

VizSamples == {0, 50, 100}

\* the collections of up to MaxScores distinct scores, listed in ascending order
Collections ==
    {c \in SeqsOf(VizSamples, 0, MaxScores) : \A i \in 1..(Len(c) - 1) : c[i] < c[i + 1]}

\* key lists: any order, without repetition
KeyLists ==
    {k \in SeqsOf(GroupKeys, 0, Cardinality(GroupKeys)) :
        \A i, j \in 1..Len(k) : k[i] = k[j] => i = j}

Paths == {<<"out">>, <<"out", ".png">>, <<"out", ".png", ".png">>}

InitViz ==
    /\ groups \in [GroupKeys -> Collections]
    /\ fs = EmptyDict
    /\ viz = NoViz
    /\ ncalls = 0
    /\ ScoreIdle /\ SelIdle /\ StatIdle

VizFrame == UNCHANGED <<y_true, y_pred, ret, cas, scores_txt, sel, data, agg, groups>>

CreateHistogram ==
    /\ ncalls < MaxCalls
    /\ ncalls' = ncalls + 1
    /\ \E g \in GroupKeys, path \in Paths :
          \E r \in {create_histogram(groups[g], path, fs)} :
              viz' = r.viz /\ fs' = r.fs
    /\ VizFrame

CreateHeatmap ==
    /\ ncalls < MaxCalls
    /\ ncalls' = ncalls + 1
    /\ \E keys \in KeyLists, path \in Paths :
          \E r \in {create_heatmap(groups, keys, path, fs)} :
              viz' = r.viz /\ fs' = r.fs
    /\ VizFrame

NextViz == CreateHistogram \/ CreateHeatmap

SpecViz == InitViz /\ [][NextViz]_vars

(***************************************************************************)
(* Properties of the renderers                                             *)
(***************************************************************************)
\* base64.b64decode of a string of symbols: four symbols become three bytes,
\* fewer where the group ends in padding
RECURSIVE b64decode(_)
b64decode(s) ==
    IF Len(s) < 4 THEN <<>>
    ELSE IF s[3] = 64
    THEN <<s[1] * 4 + s[2] \div 16>>
    ELSE IF s[4] = 64
    THEN <<s[1] * 4 + s[2] \div 16, (s[2] % 16) * 16 + s[3] \div 4>>
    ELSE <<s[1] * 4 + s[2] \div 16, (s[2] % 16) * 16 + s[3] \div 4, (s[3] % 4) * 64 + s[4]>>
         \o b64decode(SubSeq(s, 5, Len(s)))

\* the scores of the groups a key list names
AllScores(keys) == UNION {Range(groups[keys[i]]) : i \in 1..Len(keys)}

GlobalMin(keys) == CHOOSE x \in AllScores(keys) : \A y \in AllScores(keys) : x <= y

GlobalMax(keys) == CHOOSE x \in AllScores(keys) : \A y \in AllScores(keys) : y <= x

\* no score at all (an empty key list, only empty collections) or one value only
Degenerate(keys) == Cardinality(AllScores(keys)) <= 1

NonDegenerate(keys) ==
    /\ \A i \in 1..Len(keys) : groups[keys[i]] # <<>>
    /\ Cardinality(AllScores(keys)) >= 2

\* C8 as stated: create_heatmap over degenerate data fails with the wrapped
\* computation error (raised as Exception, like the metrics do) and has
\* neither written nor encoded an image.
C8_DegenerateHeatmapFails ==
    (viz.fn = "create_heatmap" /\ Degenerate(viz.keys)) =>
        /\ viz.kind = "raise"
        /\ viz.type = "Exception"
        /\ viz.wrote = <<>>
        /\ viz.b64 = <<>>

\* C9 as stated: the string a call returns decodes to the bytes this call
\* wrote, which are not empty.
C9_ReturnsTheFileJustWritten ==
    viz.kind = "return" =>
        /\ viz.bytes # <<>>
        /\ b64decode(viz.b64) = viz.bytes

\* edge j of the 11 equally spaced edges from the global minimum to the
\* global maximum of the listed groups, in thousandths
SharedEdge(keys, j) ==
    InEdgeUnits(GlobalMin(keys)) + (j - 1) * (GlobalMax(keys) - GlobalMin(keys))

\* score x lies in bin j: closed on the left, open on the right, the last
\* bin also closed on the right
InBin(keys, x, j) ==
    /\ SharedEdge(keys, j) <= InEdgeUnits(x)
    /\ IF j = NumEdges - 1 THEN InEdgeUnits(x) <= SharedEdge(keys, NumEdges)
                           ELSE InEdgeUnits(x) < SharedEdge(keys, j + 1)

BinCount(keys, c, j) == Cardinality({p \in 1..Len(c) : InBin(keys, c[p], j)})

RECURSIVE RowTotal(_)
RowTotal(row) == IF row = <<>> THEN 0 ELSE Head(row) + RowTotal(Tail(row))

\* C10: for a key list of length >= 2 over non-degenerate data, the edges are
\* the 11 shared ones from the global minimum to the global maximum, row i
\* holds the per-bin counts of the collection of keys[i], every score lies in
\* exactly one bin and the counts of row i sum to the size of that collection.
C10_RowsAreGroupHistograms ==
    (viz.fn = "create_heatmap" /\ Len(viz.keys) >= 2 /\ NonDegenerate(viz.keys)) =>
        /\ viz.bins = [j \in 1..NumEdges |-> SharedEdge(viz.keys, j)]
        /\ Len(viz.heatmap) = Len(viz.keys)
        /\ \A i \in 1..Len(viz.keys) :
              /\ viz.heatmap[i] =
                    [j \in 1..(NumEdges - 1) |-> BinCount(viz.keys, groups[viz.keys[i]], j)]
              /\ RowTotal(viz.heatmap[i]) = Len(groups[viz.keys[i]])
              /\ \A p \in 1..Len(groups[viz.keys[i]]) :
                    Cardinality({j \in 1..(NumEdges - 1) :
                                    InBin(viz.keys, groups[viz.keys[i]][p], j)}) = 1

\* a heatmap of two groups, listed against the order of their names, one of
\* them with a score strictly between the global limits
C10_Witness ==
    /\ viz.fn = "create_heatmap" /\ viz.kind = "return"
    /\ viz.keys = <<"b", "a">> /\ NonDegenerate(viz.keys)
    /\ viz.heatmap[1] # viz.heatmap[2]
    /\ \E i \in 1..2 : \E j \in 2..(NumEdges - 2) : viz.heatmap[i][j] > 0

=============================================================================
